---------------------------- MODULE Spec2Model ----------------------------
(***************************************************************************)
(* A model of the fused-reader crate (src/src/lib.rs).                     *)
(*                                                                         *)
(* One shared cell  Arc<Mutex<Result<(), IoError>>>  is reachable from a   *)
(* FusedReader (reader side) and a Fuse (writer side).  The mutex is       *)
(* modelled by its lock bit, its poison flag and the value it protects.    *)
(* Threads that use the Fuse follow the shape of the closures in the       *)
(* crate's tests: arm, write to the pipe, then blow / drop the guard /     *)
(* panic, and finally drop the pipe's writer end.  The reader thread calls *)
(* FusedReader::read and FusedReader::check_fuse in any order.             *)
(***************************************************************************)
EXTENDS Integers, Sequences, FiniteSets, TLC

\* ------------------------------------------------------------------ bounds
MaxBytes == 2          \* at most this many bytes are written to the pipe
MaxArms == 2           \* at most this many arm() calls in all

\* ------------------------------------------------------------- the domain
Writer == "writer"     \* the thread that owns the pipe's writer end
Other == "other"       \* a second thread that shares the Fuse by reference
Threads == {Writer, Other}

BlowErrors == {"boom1", "boom2"}       \* errors the application passes to blow
TransportErrors == {"transport"}       \* errors of the underlying reader
WriterPanicErr == "writer end dropped due to panic"
ReaderPanicErr == "reader end dropped due to panic"
OkUnit == "ok"                         \* Ok(()) in the cell

\* FuseStatus values
Unarmed == [st |-> "Unarmed", err |-> "none"]
Armed == [st |-> "Armed", err |-> "none"]
Poisoned == [st |-> "Poisoned", err |-> "none"]
Blown(e) == [st |-> "Blown", err |-> e]
NoStatus == [st |-> "none", err |-> "none"]

\* io::Result<usize> values; NoRead stands for "no call made yet"
OkRead(n) == [ok |-> TRUE, n |-> n, err |-> "none"]
ErrRead(e) == [ok |-> FALSE, n |-> 0, err |-> e]
NoRead == [ok |-> FALSE, n |-> 0, err |-> "none"]

VARIABLES
  locked,      \* the mutex is held (by a FuseGuard, by a failing arm, or by check_fuse)
  poisoned,    \* the mutex's poison flag
  slot,        \* the value in the mutex: OkUnit or an error
  pc,          \* pc[t]: where thread t is
  arms,        \* arms[t]: arm() calls made by t
  armRes,      \* armRes[t]: what t's last arm() returned: "none", "guard" or an error
  pipe,        \* bytes in flight in the pipe
  wclosed,     \* the pipe's writer end was dropped
  written,     \* history: all bytes written
  rpc,         \* the reader's position: "idle", "cf_try", "cf_locked"
  rmode,       \* "read" when check_fuse runs inside read, "check" when called directly
  under,       \* what the underlying reader returned to the last read call
  data,        \* history: all bytes the reader received
  lastRead,    \* the result of the reader's last completed read call
  lastStatus,  \* the result of the reader's last completed check_fuse
  blown,       \* history: the errors passed to blow, in order
  delivered,   \* history: the errors check_fuse returned inside Blown, in order
  blowSince,   \* history: a blow completed since check_fuse last returned Blown
  panicHeld,   \* history: a thread panicked while holding a guard
  lastDrop     \* history: the guard that ended last was dropped without blow or panic

vars == <<locked, poisoned, slot, pc, arms, armRes, pipe, wclosed, written, rpc,
          rmode, under, data, lastRead, lastStatus, blown, delivered, blowSince,
          panicHeld, lastDrop>>

mutexVars == <<locked, poisoned, slot>>
threadVars == <<pc, arms, armRes>>
pipeVars == <<pipe, wclosed, written>>
readerVars == <<rpc, rmode, under, data, lastRead, lastStatus, delivered>>
histVars == <<blown, panicHeld, lastDrop>>

\* --------------------------------------------------------------- fuse()
\* a cell that starts with an error recorded (mutation of NewCell)
NewCellErr == "boom1"

\* Mutex::new(Ok(())): no error recorded
NewCell == OkUnit

\* the mutex starts unlocked and not poisoned; nothing was written or read yet
Init ==
  /\ locked = FALSE
  /\ poisoned = FALSE
  /\ slot = NewCell
  /\ pc = [t \in Threads |-> "run"]
  /\ arms = [t \in Threads |-> 0]
  /\ armRes = [t \in Threads |-> "none"]
  /\ pipe = <<>>
  /\ wclosed = FALSE
  /\ written = <<>>
  /\ rpc = "idle"
  /\ rmode = "read"
  /\ under = NoRead
  /\ data = <<>>
  /\ lastRead = NoRead
  /\ lastStatus = NoStatus
  /\ blown = <<>>
  /\ delivered = <<>>
  /\ blowSince = FALSE
  /\ panicHeld = FALSE
  /\ lastDrop = FALSE

\* --------------------------------------------------------- the std Mutex
\* a lock that never waits (mutation of Lock)
LockNoWait(l) == "Acquired"

\* Mutex::lock: the caller stays blocked while the lock bit is set
Lock(l) == IF l THEN "Blocked" ELSE "Acquired"

\* a try_lock that waits like lock (mutation of TryLock)
TryLockBlocking(l) == IF l THEN "Blocked" ELSE "Acquired"

\* Mutex::try_lock: returns at once, with WouldBlock when the lock bit is set
TryLock(l) == IF l THEN "WouldBlock" ELSE "Acquired"

\* a guard drop that always poisons (mutation of PoisonOnDrop)
PoisonOnDropAlways(p, panicking) == TRUE

\* a guard drop that never poisons (mutation of PoisonOnDrop)
PoisonOnDropNever(p, panicking) == p

\* dropping a MutexGuard sets the poison flag when the thread is panicking
PoisonOnDrop(p, panicking) == p \/ panicking

\* --------------------------------------------------------- Fuse::arm
\* an arm that takes the guard out of the PoisonError (mutation of ArmResult)
ArmResultIgnorePoison(p) == "guard"

\* self.0.lock().map(FuseGuard).map_err(|_| BrokenPipe "reader end dropped due to panic")
ArmResult(p) == IF p THEN ReaderPanicErr ELSE "guard"

\* an arm that resets the cell (mutation of ArmSlot)
ArmSlotReset(s) == OkUnit

\* lock().map(FuseGuard): the guard wraps the value as it is
ArmSlot(s) == s

\* the thread calls arm(): it starts waiting for the lock
ArmCall(t) ==
  /\ pc[t] = "run"
  /\ arms[Writer] + arms[Other] < MaxArms
  /\ pc' = [pc EXCEPT ![t] = "arm_wait"]
  /\ arms' = [arms EXCEPT ![t] = @ + 1]
  /\ UNCHANGED <<armRes, mutexVars, pipeVars, readerVars, histVars, blowSince>>

\* lock() returns: the lock is taken; on a poisoned mutex the guard comes back
\* inside a PoisonError, otherwise it becomes the FuseGuard
ArmAcquire(t) ==
  /\ pc[t] = "arm_wait"
  /\ Lock(locked) = "Acquired"
  /\ locked' = TRUE
  /\ IF ArmResult(poisoned) = "guard"
       THEN /\ pc' = [pc EXCEPT ![t] = "armed"]
            /\ armRes' = [armRes EXCEPT ![t] = "guard"]
       ELSE /\ pc' = [pc EXCEPT ![t] = "arm_fail"]
            /\ UNCHANGED armRes
  /\ slot' = ArmSlot(slot)
  /\ UNCHANGED <<poisoned, arms, pipeVars, readerVars, histVars, blowSince>>

\* map_err drops the PoisonError and the guard in it: the lock is released and
\* arm returns the BrokenPipe error
ArmFail(t) ==
  /\ pc[t] = "arm_fail"
  /\ locked' = FALSE
  /\ poisoned' = PoisonOnDrop(poisoned, FALSE)
  /\ pc' = [pc EXCEPT ![t] = "run"]
  /\ armRes' = [armRes EXCEPT ![t] = ArmResult(poisoned)]
  /\ UNCHANGED <<slot, arms, pipeVars, readerVars, histVars, blowSince>>

\* --------------------------------------------------------- FuseGuard
\* a blow that leaves the cell as it was (mutation of BlowSlot)
BlowSlotKeep(s, e) == s

\* a blow that does not overwrite an error already recorded (mutation of BlowSlot)
BlowSlotFirst(s, e) == IF s = OkUnit THEN e ELSE s

\* *self.0 = Err(err)
BlowSlot(s, e) == e

\* blow(err): records the error, then the consumed guard is dropped
Blow(t, e) ==
  /\ pc[t] = "armed"
  /\ slot' = BlowSlot(slot, e)
  /\ locked' = FALSE
  /\ poisoned' = PoisonOnDrop(poisoned, FALSE)
  /\ pc' = [pc EXCEPT ![t] = "run"]
  /\ blown' = Append(blown, e)
  /\ blowSince' = TRUE
  /\ lastDrop' = FALSE
  /\ UNCHANGED <<arms, armRes, pipeVars, readerVars, panicHeld>>

\* the guard goes out of scope without blow and without a panic
DropGuard(t) ==
  /\ pc[t] = "armed"
  /\ locked' = FALSE
  /\ poisoned' = PoisonOnDrop(poisoned, FALSE)
  /\ pc' = [pc EXCEPT ![t] = "run"]
  /\ lastDrop' = TRUE
  /\ UNCHANGED <<slot, arms, armRes, pipeVars, readerVars, blown, blowSince, panicHeld>>

\* ------------------------------------------------- the thread's closure
\* the bytes the writer sends are numbered, so that order and loss can be seen
NextByte == Len(written) + 1

\* writer.write(&[b]), with or without a guard held
Write(t, b) ==
  /\ t = Writer
  /\ pc[t] \in {"run", "armed"}
  /\ Len(written) < MaxBytes
  /\ pipe' = Append(pipe, b)
  /\ written' = Append(written, b)
  /\ UNCHANGED <<wclosed, mutexVars, threadVars, readerVars, histVars, blowSince>>

\* panic!: unwinding drops the closure's locals first, so a held guard is dropped
\* (poisoning the mutex) before the captured writer end
Panic(t) ==
  /\ pc[t] \in {"run", "armed"}
  /\ pc' = [pc EXCEPT ![t] = "closing"]
  /\ IF pc[t] = "armed"
       THEN /\ locked' = FALSE
            /\ poisoned' = PoisonOnDrop(poisoned, TRUE)
            /\ panicHeld' = TRUE
            /\ lastDrop' = FALSE
       ELSE UNCHANGED <<locked, poisoned, panicHeld, lastDrop>>
  /\ UNCHANGED <<slot, arms, armRes, pipeVars, readerVars, blown, blowSince>>

\* the closure returns with no guard held
Return(t) ==
  /\ pc[t] = "run"
  /\ pc' = [pc EXCEPT ![t] = "closing"]
  /\ UNCHANGED <<arms, armRes, mutexVars, pipeVars, readerVars, histVars, blowSince>>

\* the closure's captures are dropped; the Writer's capture is the pipe's writer end
DropCaptures(t) ==
  /\ pc[t] = "closing"
  /\ pc' = [pc EXCEPT ![t] = "done"]
  /\ wclosed' = (wclosed \/ t = Writer)
  /\ UNCHANGED <<pipe, written, arms, armRes, mutexVars, readerVars, histVars, blowSince>>

\* ------------------------------------------------- the underlying reader
\* what self.reader.read(buf) can return now: some of the bytes in flight, a
\* transport error, or zero bytes once the writer end is gone and the pipe is
\* empty (with the pipe empty and the writer end alive the call blocks)
UnderlyingOutcomes ==
  {OkRead(n) : n \in 1..Len(pipe)}
    \cup {ErrRead(e) : e \in TransportErrors}
    \cup (IF pipe = <<>> /\ wclosed THEN {OkRead(0)} ELSE {})

Drop(s, n) == SubSeq(s, n + 1, Len(s))
Take(s, n) == SubSeq(s, 1, n)

\* --------------------------------------------- FusedReader::check_fuse
\* a check_fuse that unwraps the poisoned guard (mutation of CheckStatus)
CheckStatusNoPoison(p, s) == IF s # OkUnit THEN Blown(s) ELSE Unarmed

\* the match on try_lock() once the lock was obtained
CheckStatus(p, s) ==
  IF p THEN Poisoned
  ELSE IF s # OkUnit THEN Blown(s)
  ELSE Unarmed

\* a check_fuse that reads the error without taking it (mutation of SlotAfterCheck)
SlotAfterCheckKeep(p, s) == s

\* a check_fuse that clears the slot whatever it returns (mutation of SlotAfterCheck)
SlotAfterCheckAlways(p, s) == OkUnit

\* std::mem::swap(&mut *guard, &mut Ok(())) in the Blown arm only
SlotAfterCheck(p, s) == IF ~p /\ s # OkUnit THEN OkUnit ELSE s

\* ------------------------------------------------- FusedReader::read
\* a read that consults the fuse after every successful read (mutation of NeedsFuseCheck)
NeedsFuseCheckAlways(u) == u.ok

\* and_then(|bytes| if bytes == 0 { ... check_fuse ... } else { Ok(bytes) })
NeedsFuseCheck(u) == u.ok /\ u.n = 0

\* an end-of-stream mapping that lets only Armed through (mutation of ReadResult)
ReadResultStrict(u, status) ==
  IF u.ok /\ u.n = 0
    THEN CASE status.st = "Blown" -> ErrRead(status.err)
           [] status.st = "Armed" -> u
           [] OTHER -> ErrRead(WriterPanicErr)
    ELSE u

\* an end-of-stream mapping that fails while the fuse is armed (mutation of ReadResult)
ReadResultArmedErr(u, status) ==
  IF u.ok /\ u.n = 0
    THEN CASE status.st = "Blown" -> ErrRead(status.err)
           [] status.st = "Poisoned" -> ErrRead(WriterPanicErr)
           [] status.st = "Armed" -> ErrRead(WriterPanicErr)
           [] OTHER -> u
    ELSE u

\* an end-of-stream mapping that overlooks Poisoned (mutation of ReadResult)
ReadResultNoPoison(u, status) ==
  IF u.ok /\ u.n = 0
    THEN CASE status.st = "Blown" -> ErrRead(status.err)
           [] OTHER -> u
    ELSE u

\* the match on check_fuse() at end-of-stream
ReadResult(u, status) ==
  IF NeedsFuseCheck(u)
    THEN CASE status.st = "Blown" -> ErrRead(status.err)
           [] status.st = "Poisoned" -> ErrRead(WriterPanicErr)
           [] OTHER -> u
    ELSE u

\* check_fuse returns status; a surrounding read returns what it maps to
Finish(status) ==
  /\ rpc' = "idle"
  /\ lastStatus' = status
  /\ blowSince' = IF status.st = "Blown" THEN FALSE ELSE blowSince
  /\ delivered' = IF status.st = "Blown" THEN Append(delivered, status.err) ELSE delivered
  /\ lastRead' = IF rmode = "read" THEN ReadResult(under, status) ELSE lastRead

\* read(buf): the underlying read; its result is returned as it is unless it is
\* a zero-byte success, which goes through check_fuse first
ReadUnderlying(u) ==
  /\ rpc = "idle"
  /\ u \in UnderlyingOutcomes
  /\ under' = u
  /\ rmode' = "read"
  /\ data' = data \o Take(pipe, u.n)
  /\ pipe' = Drop(pipe, u.n)
  /\ IF NeedsFuseCheck(u)
       THEN rpc' = "cf_try" /\ UNCHANGED lastRead
       ELSE rpc' = "idle" /\ lastRead' = u
  /\ UNCHANGED <<wclosed, written, mutexVars, threadVars, lastStatus, delivered,
                 histVars, blowSince>>

\* the application calls check_fuse directly
CheckCall ==
  /\ rpc = "idle"
  /\ rpc' = "cf_try"
  /\ rmode' = "check"
  /\ UNCHANGED <<under, data, lastRead, lastStatus, delivered, mutexVars, threadVars,
                 pipeVars, histVars, blowSince>>

\* self.fuse.try_lock(): WouldBlock gives Armed at once, otherwise the lock is held
CheckTryLock ==
  /\ rpc = "cf_try"
  /\ TryLock(locked) # "Blocked"
  /\ IF TryLock(locked) = "WouldBlock"
       THEN Finish(Armed) /\ UNCHANGED locked
       ELSE /\ locked' = TRUE
            /\ rpc' = "cf_locked"
            /\ UNCHANGED <<lastStatus, blowSince, delivered, lastRead>>
  /\ UNCHANGED <<poisoned, slot, rmode, under, data, threadVars, pipeVars, histVars>>

\* with the lock held: Poisoned, or Blown after draining the slot, or Unarmed;
\* the guard is dropped at the end of the match
CheckLocked ==
  /\ rpc = "cf_locked"
  /\ Finish(CheckStatus(poisoned, slot))
  /\ slot' = SlotAfterCheck(poisoned, slot)
  /\ locked' = FALSE
  /\ poisoned' = PoisonOnDrop(poisoned, FALSE)
  /\ UNCHANGED <<rmode, under, data, threadVars, pipeVars, histVars>>

\* ------------------------------------------------------------ the system
\* what a thread does with the fuse, and how it ends
FuseStep(t) ==
  \/ ArmCall(t)
  \/ ArmAcquire(t)
  \/ ArmFail(t)
  \/ \E e \in BlowErrors : Blow(t, e)
  \/ DropGuard(t)
  \/ Panic(t)
  \/ Return(t)
  \/ DropCaptures(t)

ThreadStep(t) == FuseStep(t) \/ Write(t, NextByte)

CheckFuseStep == CheckTryLock \/ CheckLocked

ReaderStep ==
  \/ \E u \in UnderlyingOutcomes : ReadUnderlying(u)
  \/ CheckCall
  \/ CheckFuseStep

Next == (\E t \in Threads : ThreadStep(t)) \/ ReaderStep

Spec == Init /\ [][Next]_vars

\* the reader thread keeps running: a check_fuse that can take a step takes it
FairSpec == Spec /\ WF_vars(CheckFuseStep)

\* a live guard ends: by blow, by a normal drop, or by a panic of its holder
GuardRelease(t) ==
  \/ \E e \in BlowErrors : Blow(t, e)
  \/ DropGuard(t)
  \/ (pc[t] = "armed" /\ Panic(t))

\* every thread keeps running: a started check_fuse and a failing arm finish,
\* every live guard is released, and a thread waiting in lock() that finds the
\* lock free again and again obtains it
\* (the writer sends no bytes here: the lock does not depend on the data)
NextNoData == (\E t \in Threads : FuseStep(t)) \/ ReaderStep

LiveSpec ==
  /\ Init /\ [][NextNoData]_vars
  /\ WF_vars(CheckFuseStep)
  /\ \A t \in Threads :
       /\ WF_vars(GuardRelease(t))
       /\ WF_vars(ArmFail(t))
       /\ SF_vars(ArmAcquire(t))

\* ------------------------------------------------------------ properties
\* a read call has completed on the end-of-stream path: the underlying reader
\* returned zero bytes and check_fuse has returned
EofReadDone == rpc = "idle" /\ under = OkRead(0)

\* the step completes a check_fuse (called directly or inside read)
CheckCompletes == rpc \in {"cf_try", "cf_locked"} /\ rpc' = "idle"

\* the step completes a read call on the end-of-stream path
EofReadCompletes == CheckCompletes /\ rmode = "read"

\* the threads that hold the mutex, and the reader when check_fuse holds it
Holders ==
  {t \in Threads : pc[t] \in {"armed", "arm_fail"}}
    \cup (IF rpc = "cf_locked" THEN {"reader"} ELSE {})

\* the threads that own a live FuseGuard
GuardHolders == {t \in Threads : pc[t] = "armed"}

\* C1: only the writer thread uses the fuse (tests::test_fused_panic); once it
\* has panicked while holding the guard, every read that completes at
\* end-of-stream returns the BrokenPipe "writer end dropped due to panic" error,
\* never Ok(0), and by then the reader has received every byte written.
C1_PanicPropagation ==
  (panicHeld /\ arms[Other] = 0 /\ EofReadDone)
    => (lastRead = ErrRead(WriterPanicErr) /\ data = written)

C1_Witness ==
  /\ panicHeld /\ arms[Other] = 0 /\ EofReadDone
  /\ Len(written) >= 1 /\ data = written
  /\ lastRead = ErrRead(WriterPanicErr)

\* C2: only the writer thread uses the fuse and it arms once (tests::test_fused_blow);
\* after it has called blow(E), the first read that completes at end-of-stream
\* (the error not having been taken by an earlier check_fuse) returns exactly
\* Err(E), and by then the reader has received every byte written.
C2_BlowPropagation ==
  [][(/\ arms[Writer] = 1 /\ arms[Other] = 0
      /\ Len(blown) = 1 /\ delivered = <<>>
      /\ EofReadCompletes)
       => (lastRead' = ErrRead(blown[1]) /\ data' = written')]_vars

C2_Witness ==
  /\ arms[Writer] = 1 /\ arms[Other] = 0
  /\ Len(blown) = 1 /\ delivered = blown
  /\ EofReadDone /\ rmode = "read"
  /\ Len(written) >= 1 /\ data = written
  /\ lastRead = ErrRead(blown[1])

\* C3: only the writer thread uses the fuse (tests::test_fused_nopanic); when
\* every guard it took was released without blow and without panic, every read
\* that completes at end-of-stream returns Ok(0), and by then the reader has
\* received every byte written.
C3_NoFalsePositive ==
  (/\ arms[Writer] >= 1 /\ arms[Other] = 0
   /\ blown = <<>> /\ ~panicHeld
   /\ EofReadDone)
    => (lastRead = OkRead(0) /\ data = written)

C3_Witness ==
  /\ arms[Writer] >= 1 /\ arms[Other] = 0
  /\ blown = <<>> /\ ~panicHeld
  /\ EofReadDone
  /\ Len(written) >= 1 /\ data = written
  /\ lastRead = OkRead(0)

\* C4: at most one party holds the mutex at any time, so at most one FuseGuard
\* is live; the lock bit is set exactly while somebody holds it, and a thread
\* whose arm finds the lock taken stays in arm until the holder has released.
C4_MutualExclusion ==
  /\ Cardinality(Holders) <= 1
  /\ Cardinality(GuardHolders) <= 1
  /\ locked <=> (Holders # {})

C4_Witness ==
  /\ pc[Writer] = "armed"
  /\ pc[Other] = "arm_wait"
  /\ locked

\* the error passed to the most recent blow
LastBlown == blown[Len(blown)]

C6_NonEofTransparent ==
  /\ []((rpc # "idle" /\ rmode = "read") => under = OkRead(0))
  /\ []((rpc = "idle" /\ rmode = "read" /\ under # OkRead(0)) => lastRead = under)
  /\ [][(/\ rpc = "idle" /\ rpc' = "idle"
         /\ <<under, data, lastRead, rmode>>' # <<under, data, lastRead, rmode>>)
          => /\ under' # OkRead(0)
             /\ lastRead' = under'
             /\ UNCHANGED <<locked, poisoned, slot, lastStatus, delivered>>]_vars

C6_Witness ==
  /\ rpc = "idle" /\ rmode = "read"
  /\ under = OkRead(1) /\ lastRead = OkRead(1)
  /\ slot \in BlowErrors

\* C7: a check_fuse that has started completes, whatever the threads do, also
\* when a guard is never released (checked with the reader thread kept running
\* and no fairness for the threads that hold guards).
C7_CheckFuseNeverBlocks == (rpc # "idle") ~> (rpc = "idle")

C7_Witness ==
  /\ rpc = "idle" /\ lastStatus = Armed
  /\ GuardHolders # {}

\* C8: try_lock gives Armed exactly when a thread holds the lock at that moment,
\* and otherwise obtains the lock; with the lock obtained check_fuse returns
\* Poisoned if a guard holder panicked while holding it, else Blown(E) if the
\* slot holds E, else Unarmed.
C8_StatusMapping ==
  [][/\ (rpc = "cf_try" /\ rpc' # "cf_try")
          => IF Holders # {}
               THEN rpc' = "idle" /\ lastStatus' = Armed
               ELSE rpc' = "cf_locked"
     /\ (rpc = "cf_locked" /\ rpc' # "cf_locked")
          => /\ rpc' = "idle"
             /\ lastStatus' = IF panicHeld THEN Poisoned
                              ELSE IF slot \in BlowErrors THEN Blown(slot)
                              ELSE Unarmed]_vars

C8_Witness ==
  /\ rpc = "idle" /\ lastStatus = Poisoned
  /\ panicHeld /\ slot \in BlowErrors

\* C9: once a guard holder has panicked while holding the guard, no guard is
\* live any more and every arm that obtains the lock fails: it returns the
\* BrokenPipe "reader end dropped due to panic" error, holds no guard, and has
\* released the lock when it returns.
C9_ArmPoisonedFails ==
  /\ [](panicHeld => GuardHolders = {})
  /\ [][\A t \in Threads :
          /\ (panicHeld /\ pc[t] = "arm_wait" /\ pc'[t] # "arm_wait")
               => pc'[t] = "arm_fail"
          /\ (pc[t] = "arm_fail" /\ pc'[t] # "arm_fail")
               => /\ pc'[t] = "run"
                  /\ armRes'[t] = ReaderPanicErr
                  /\ ~locked'
                  /\ Holders' = {}]_vars

C9_Witness ==
  /\ panicHeld /\ ~locked
  /\ pc[Other] = "run" /\ armRes[Other] = ReaderPanicErr

C11_ArmedEofNotFinal ==
  [][(EofReadCompletes /\ rpc = "cf_try" /\ GuardHolders # {})
       => lastRead' # OkRead(0)]_vars

\* C11 as amended: a read that reaches end-of-stream while a guard is held
\* returns Ok(0), the same result as after a normal release; that the guard is
\* held shows only in check_fuse, which returns Armed.
C11_ArmedEofIsOk ==
  [][(EofReadCompletes /\ rpc = "cf_try" /\ GuardHolders # {})
       => (lastStatus' = Armed /\ lastRead' = OkRead(0))]_vars

C11_Witness ==
  /\ EofReadDone /\ rmode = "read"
  /\ GuardHolders # {}
  /\ lastStatus = Armed /\ lastRead = OkRead(0)

\* C12: a read whose underlying read returned zero bytes returns Err(E) when its
\* check_fuse returned Blown(E), the BrokenPipe "writer end dropped due to
\* panic" error when it returned Poisoned, and Ok(0) when it returned Unarmed
\* or Armed.
C12_EofMapping ==
  [][EofReadCompletes
       => /\ under = OkRead(0)
          /\ lastRead' = CASE lastStatus'.st = "Blown" -> ErrRead(lastStatus'.err)
                           [] lastStatus'.st = "Poisoned" -> ErrRead(WriterPanicErr)
                           [] lastStatus'.st \in {"Unarmed", "Armed"} -> OkRead(0)]_vars

C12_Witness ==
  /\ EofReadDone /\ rmode = "read"
  /\ lastStatus = Poisoned
  /\ lastRead = ErrRead(WriterPanicErr)

\* C13 as claimed: when the guard that ended last was dropped without blow and
\* without panic, a check_fuse that finds no guard held returns Unarmed.
C13_UnarmedAfterDrop ==
  [][(CheckCompletes /\ rpc = "cf_locked" /\ lastDrop)
       => lastStatus' = Unarmed]_vars

\* C13 as amended: when the guard that ended last was dropped without blow and
\* without panic, a check_fuse that finds no guard held returns Unarmed unless
\* an error blown through an earlier guard has not been taken yet, in which
\* case it returns Blown with that error (and Unarmed from then on).
C13_UnarmedOrEarlierBlow ==
  [][(CheckCompletes /\ rpc = "cf_locked" /\ lastDrop)
       => lastStatus' = IF blowSince THEN Blown(LastBlown) ELSE Unarmed]_vars

\* check_fuse has obtained the lock after a normal drop while the error of an
\* earlier blow is still in the slot
C13_Witness ==
  /\ rpc = "cf_locked" /\ lastDrop
  /\ blowSince /\ slot = LastBlown

\* a prefix test on sequences
IsPrefix(a, b) == Len(a) <= Len(b) /\ a = SubSeq(b, 1, Len(a))

\* C14: as long as no guard has called blow and no guard holder has panicked
\* (the fuse is never armed, or guards are only dropped normally), every read
\* returns exactly what the underlying read returned, the bytes received are
\* the bytes written in order, and check_fuse never returns Blown or Poisoned;
\* with the fuse never armed check_fuse returns Unarmed.
C14_Transparency ==
  (blown = <<>> /\ ~panicHeld)
    => /\ (rpc = "idle" /\ rmode = "read") => lastRead = under
       /\ IsPrefix(data, written) /\ data \o pipe = written
       /\ lastStatus.st \in {"none", "Unarmed", "Armed"}
       /\ (arms[Writer] + arms[Other] = 0) => lastStatus.st \in {"none", "Unarmed"}

C14_Witness ==
  /\ blown = <<>> /\ ~panicHeld /\ lastDrop
  /\ EofReadDone /\ rmode = "read"
  /\ lastRead = OkRead(0) /\ lastStatus = Unarmed
  /\ Len(written) >= 1 /\ data = written

\* C15: taking a guard leaves the error slot as it is, nothing changes the slot
\* while the guard stays held, and dropping the guard without blow leaves the
\* slot as it is: an error of an earlier blow that the reader has not taken is
\* still there afterwards.
C15_ArmDropKeepSlot ==
  [][\A t \in Threads :
       /\ (pc[t] = "arm_wait" /\ pc'[t] = "armed") => slot' = slot
       /\ (pc[t] = "armed" /\ pc'[t] = "armed") => slot' = slot
       /\ (pc[t] = "armed" /\ pc'[t] = "run" /\ blown' = blown) => slot' = slot]_vars

\* the guard that ended last was dropped normally, after the blow whose error
\* is still in the slot
C15_Witness ==
  /\ lastDrop /\ Holders = {}
  /\ blowSince /\ slot \in BlowErrors /\ slot = LastBlown
  /\ delivered = <<>>

\* C16: check_fuse leaves the poison flag and the threads' guards as they are
\* and the lock as it found it; it changes the error slot only when it returns
\* Blown(E), where the slot held E and is reset to "no error recorded".
C16_CheckFuseFrame ==
  [][/\ (rpc = "cf_try" /\ rpc' = "cf_locked")
          => UNCHANGED <<slot, poisoned, pc>>
     /\ CheckCompletes
          => /\ UNCHANGED <<poisoned, pc>>
             /\ locked' = (rpc = "cf_try")
             /\ IF lastStatus'.st = "Blown"
                  THEN slot = lastStatus'.err /\ slot' = OkUnit
                  ELSE slot' = slot]_vars

C16_Witness ==
  /\ rpc = "idle" /\ rmode = "check"
  /\ lastStatus = Poisoned
  /\ poisoned /\ ~locked /\ slot \in BlowErrors

C18_PoisonPermanent ==
  /\ [](panicHeld => GuardHolders = {})
  /\ [][(panicHeld /\ CheckCompletes)
          => /\ lastStatus'.st \notin {"Unarmed", "Blown"}
             /\ rmode = "read" => lastRead' = ErrRead(WriterPanicErr)]_vars

\* C19: a read returns a blow error only if that error was passed to blow before,
\* the BrokenPipe "writer end dropped due to panic" error only if a guard holder
\* panicked while holding the guard, and any other error only as the result of
\* the underlying read; with no blow and no such panic no read returns a
\* fuse-derived error.
C19_FuseErrorsSound ==
  /\ lastRead.err \in BlowErrors
       => \E i \in 1..Len(delivered) : delivered[i] = lastRead.err
  /\ \A i \in 1..Len(delivered) : \E j \in 1..Len(blown) : blown[j] = delivered[i]
  /\ lastRead = ErrRead(WriterPanicErr) => panicHeld
  /\ lastRead.err \in {"none", WriterPanicErr} \cup BlowErrors \cup TransportErrors
  /\ (lastRead.err \in TransportErrors /\ rpc = "idle" /\ rmode = "read")
       => under = lastRead

C19_Witness ==
  /\ rpc = "idle" /\ rmode = "read"
  /\ Len(blown) = 2 /\ blown[1] # blown[2]
  /\ lastRead = ErrRead(blown[2])

\* C20: the error slot holds an error exactly when a blow has completed since
\* check_fuse last returned Blown (or since construction), and then it holds
\* the error passed to the most recent blow.
C20_SlotInvariant ==
  /\ (slot # OkUnit) <=> blowSince
  /\ (slot # OkUnit) => (blown # <<>> /\ slot = LastBlown)

\* an error was blown and taken, and a different one was blown after that
C20_Witness ==
  /\ Len(blown) = 2 /\ blown[1] # blown[2]
  /\ delivered = <<blown[1]>>
  /\ blowSince /\ slot = blown[2]

=============================================================================
